---- MODULE Spec2Model ----
(***************************************************************************)
(* lmttfy: a function wrapped by invoke_in_sp runs in a worker process and *)
(* one wrapped by invoke_in_thread runs in a worker thread.  The wrapper   *)
(* admits or rejects the call against a per-function counter and returns a *)
(* call object (MultiProcessedCall / ThreadedCall) with on_complete,       *)
(* on_error, burst and wait.  The model follows src/src/lmttfy/process.py  *)
(* and src/src/lmttfy/thread.py statement by statement where two threads   *)
(* touch the same field: no lock guards the fields of a call object, so    *)
(* every assignment of the background thread is a step of its own.         *)
(***************************************************************************)
EXTENDS Integers, Sequences, FiniteSets, TLC

\* ------------------------------------------------------------------ bounds
\* Calls the calling thread makes in one run: invocations of the wrapped function
\* (admitted or rejected) and on_complete, on_error, burst and wait on call objects.
MaxCalls == 3
\* Largest bounded max_concurrent_execs a decorator is given.
MaxLimit == 1

\* ------------------------------------------------------------ common.py
CALL_STATE_INCOMPLETE == 0
CALL_STATE_SUCCESS == 1
CALL_STATE_ERROR == 2

\* max_concurrent_execs=-1: no limit (the decorators' default).
UNBOUNDED == -1

\* Python objects are tagged with their type, so that any two can be compared.
\* None: the initial fc_ret, and "nothing raised".
None == <<"NoneType">>
int(n) == <<"int", n>>
\* The call object itself: what on_complete / on_error return, and the argument
\* of thread.py line 87.
Self == <<"self">>
Exception(name) == <<"Exception", name>>

\* The exceptions the model tells apart.
BurstWhileNoTaskErrorsException == Exception("BurstWhileNoTaskErrorsException")
MaxConcurrentCallsLimitExceedException == Exception("MaxConcurrentCallsLimitExceedException")
\* What the wrapped function raises when it raises.
ValueError == Exception("ValueError")
\* What a registered callable raises when it raises.
CallbackError == Exception("CallbackError")
\* What os.kill / taskkill raises when the kill fails.
KillError == Exception("KillError")

\* The decorated functions (id(function) of each) and the two decorators.
Fids == {1}
Paths == {"sp", "thread"}
MaxChoices == UNBOUNDED .. MaxLimit

\* pass_: the default callable of both callback fields; it never raises.
pass_ == [id |-> 0, raises |-> FALSE]

\* The wrapped function of lmttfy_test.py without its sleep: a + b.
sleep_n_add(a, b) == int(a + b)

\* The arguments of the n-th call object of the test script: (n, 2), so x -> 3, y -> 4.
CallResult(n) == sleep_n_add(n, 2)

VARIABLES
    decorator,             \* per function: the decorator applied to it
    max_concurrent_execs,  \* per function: decorator argument
    terminate_on_return,   \* per function: decorator argument of invoke_in_sp
    PROCESS_CALL_COUNTER,  \* process.py: fid -> calls in flight
    FUN_CALL_COUNTER,      \* thread.py: fid -> calls in flight
    calls,                 \* the call objects, in order of creation
    bg,                    \* per call: its background thread (pc and locals)
    proc,                  \* per call: its worker process and result queue
    caller,                \* the calling thread: the operation it is inside
    ret,                   \* what the caller's last operation gave, until the next starts
    events,                \* per call: callback invocations and releases, in order
    obs,                   \* per call: what was observed of it (history)
    ncalls                 \* calls the calling thread has made so far

config == <<decorator, max_concurrent_execs, terminate_on_return>>
counters == <<PROCESS_CALL_COUNTER, FUN_CALL_COUNTER>>
vars == <<decorator, max_concurrent_execs, terminate_on_return, PROCESS_CALL_COUNTER,
          FUN_CALL_COUNTER, calls, bg, proc, caller, ret, events, obs,
          ncalls>>

Handles == 1 .. Len(calls)

\* ------------------------------------------------------------- the wrapper
\* wrapper, process.py 152-156 / thread.py 104-108: the test that refuses the call.
wrapper_raises(counter, fid, max) ==
    /\ fid \in DOMAIN counter
    /\ counter[fid] >= max
    /\ max # UNBOUNDED

\* The same wrapper with the counter raised before the limit is tested.
wrapper_counter_count_first(counter, fid, max) ==
    IF fid \in DOMAIN counter
    THEN [counter EXCEPT ![fid] = @ + 1]
    ELSE counter @@ (fid :> 1)

\* wrapper, process.py 151-160 / thread.py 103-112: the table after the "with" block.
wrapper_counter(counter, fid, max) ==
    IF fid \in DOMAIN counter
    THEN IF wrapper_raises(counter, fid, max)
         THEN counter
         ELSE [counter EXCEPT ![fid] = @ + 1]
    ELSE counter @@ (fid :> 1)

\* A release that lowers the count of every function in the table.
release_counter_every_function(counter, fid) ==
    [f \in DOMAIN counter |-> IF counter[f] > 0 THEN counter[f] - 1 ELSE counter[f]]

\* The background thread's release, process.py 132-135 / thread.py 89-91.
release_counter(counter, fid) ==
    IF counter[fid] > 0 THEN [counter EXCEPT ![fid] = @ - 1] ELSE counter

\* MultiProcessedCall.__init__ / ThreadedCall.__init__: the fields of a new object.
NewCall(path, fid, tor) ==
    [path |-> path, fid |-> fid, tor |-> tor,
     state |-> CALL_STATE_INCOMPLETE, fc_ret |-> None,
     exception |-> BurstWhileNoTaskErrorsException,
     onComplete |-> pass_, onError |-> pass_]

\* The background thread a new object starts: __sync_state, or __exe.
\* cmd and e are its locals; uncaught is the exception that ended it, if one did.
NewBg(path) ==
    [pc |-> IF path = "sp" THEN "poll" ELSE "run", cmd |-> <<>>, e |-> None,
     uncaught |-> None]

\* The worker process and the queue of a new MultiProcessedCall (none for a thread).
NewProc(path) ==
    [status |-> IF path = "sp" THEN "running" ELSE "none",
     ipcq |-> <<>>, sigterm |-> FALSE, sigkill |-> FALSE]

NewObs == [produced |-> <<>>, late |-> {}, termWaits |-> {}]

\* The calling thread outside any operation, and before its first one.
Idle == [pc |-> "idle", h |-> 0, imm |-> FALSE, timeout |-> 0,
         entry |-> CALL_STATE_INCOMPLETE]
Returned(op, h, value, raised, st) ==
    [op |-> op, h |-> h, value |-> value, raised |-> raised, state |-> st]
NoRet == Returned("none", 0, None, None, CALL_STATE_INCOMPLETE)

\* The timeouts wait is called with: 0 (the default: no limit) and a positive one.
Timeouts == {0, 1}

Counter(path) == IF path = "sp" THEN PROCESS_CALL_COUNTER ELSE FUN_CALL_COUNTER

Init ==
    /\ decorator \in [Fids -> Paths]
    /\ max_concurrent_execs \in [Fids -> MaxChoices]
    /\ terminate_on_return \in [Fids -> BOOLEAN]
    /\ \A f \in Fids : decorator[f] = "thread" => ~terminate_on_return[f]
    /\ PROCESS_CALL_COUNTER = <<>>
    /\ FUN_CALL_COUNTER = <<>>
    /\ calls = <<>>
    /\ bg = <<>>
    /\ proc = <<>>
    /\ caller = Idle
    /\ ret = NoRet
    /\ events = <<>>
    /\ obs = <<>>
    /\ ncalls = 0

\* wrapper (process.py 149-161, thread.py 101-113): admit and build the call
\* object, or raise MaxConcurrentCallsLimitExceedException.
Invoke(fid) ==
    LET path == decorator[fid]
        max == max_concurrent_execs[fid]
    IN  /\ caller.pc = "idle"
        /\ ncalls < MaxCalls
        /\ ncalls' = ncalls + 1
        /\ IF wrapper_raises(Counter(path), fid, max)
           THEN /\ ret' = Returned("invoke", 0, None,
                                   MaxConcurrentCallsLimitExceedException,
                                   CALL_STATE_INCOMPLETE)
                /\ UNCHANGED <<calls, bg, proc, events, obs>>
           ELSE /\ calls' = Append(calls, NewCall(path, fid, terminate_on_return[fid]))
                /\ bg' = Append(bg, NewBg(path))
                /\ proc' = Append(proc, NewProc(path))
                /\ events' = Append(events, <<>>)
                /\ obs' = Append(obs, NewObs)
                /\ ret' = Returned("invoke", Len(calls) + 1, Self, None,
                                   CALL_STATE_INCOMPLETE)
        /\ IF path = "sp"
           THEN /\ PROCESS_CALL_COUNTER' = wrapper_counter(PROCESS_CALL_COUNTER, fid, max)
                /\ UNCHANGED FUN_CALL_COUNTER
           ELSE /\ FUN_CALL_COUNTER' = wrapper_counter(FUN_CALL_COUNTER, fid, max)
                /\ UNCHANGED PROCESS_CALL_COUNTER
        /\ UNCHANGED <<config, caller>>

\* --------------------------------------------------- the wrapped function
\* What the n-th call's function does: it returns its sum or raises ValueError.
Outcomes(n) == {<<"success_set", CallResult(n)>>, <<"exception_set", ValueError>>}

\* mp_exec_wrapper putting both messages, one after the other.
WorkerPut_both(h) ==
    /\ h \in Handles
    /\ proc[h].status = "running"
    /\ proc' = [proc EXCEPT ![h].status = "reported",
                            ![h].ipcq = @ \o <<<<"success_set", CallResult(h)>>,
                                               <<"exception_set", ValueError>>>>]
    /\ obs' = [obs EXCEPT ![h].produced = <<"success_set", CallResult(h)>>]
    /\ UNCHANGED <<config, counters, calls, bg, caller, ret, events, ncalls>>

\* mp_exec_wrapper (process.py 19-27): the function ends and its outcome is put
\* on the queue, ("success_set", value) or ("exception_set", e).
WorkerPut(h) ==
    /\ h \in Handles
    /\ proc[h].status = "running"
    /\ \E msg \in Outcomes(h) :
          /\ proc' = [proc EXCEPT ![h].status = "reported",
                                  ![h].ipcq = Append(@, msg)]
          /\ obs' = [obs EXCEPT ![h].produced = msg]
    /\ UNCHANGED <<config, counters, calls, bg, caller, ret, events, ncalls>>

\* The worker process ends after mp_exec_wrapper has returned (or on SIGTERM).
WorkerExit(h) ==
    /\ h \in Handles
    /\ proc[h].status = "reported"
    /\ proc' = [proc EXCEPT ![h].status = "exited"]
    /\ UNCHANGED <<config, counters, calls, bg, caller, ret, events, obs, ncalls>>

\* The worker process dies before it puts anything on the queue (a crash, a kill
\* from outside): process.py has no code for it.
WorkerCrash(h) ==
    /\ h \in Handles
    /\ proc[h].status = "running"
    /\ proc' = [proc EXCEPT ![h].status = "exited"]
    /\ UNCHANGED <<config, counters, calls, bg, caller, ret, events, obs, ncalls>>

\* ------------------------------------------------------------- callbacks
\* One invocation of a registered callable, as recorded in the call's history.
CallbackEvent(by, kind, cb, arg, st) ==
    [ev |-> "callback", by |-> by, kind |-> kind, cb |-> cb.id, arg |-> arg, state |-> st]

ReleaseEvent(st) ==
    [ev |-> "release", by |-> "loop", kind |-> "release", cb |-> 0, arg |-> None, state |-> st]

\* --------------------------------- MultiProcessedCall.__sync_state (95-137)
\* A loop that gives the slot back when get times out.
SyncPollEmpty_releases(h) ==
    /\ h \in Handles
    /\ bg[h].pc = "poll"
    /\ calls[h].state = CALL_STATE_INCOMPLETE
    /\ proc[h].ipcq = <<>>
    /\ PROCESS_CALL_COUNTER' = release_counter(PROCESS_CALL_COUNTER, calls[h].fid)
    /\ UNCHANGED <<config, FUN_CALL_COUNTER, calls, bg, proc, caller, ret, events, obs,
                   ncalls>>

\* Line 102, the queue is empty: get times out, the warning is logged, the loop
\* tests the state again.
SyncPollEmpty(h) ==
    /\ h \in Handles
    /\ bg[h].pc = "poll"
    /\ calls[h].state = CALL_STATE_INCOMPLETE
    /\ proc[h].ipcq = <<>>
    /\ UNCHANGED vars

\* Lines 102-105 / 107-109: a message is taken and the state is set; the result
\* or the exception is not stored yet.
SyncGet(h) ==
    /\ h \in Handles
    /\ bg[h].pc = "poll"
    /\ calls[h].state = CALL_STATE_INCOMPLETE
    /\ proc[h].ipcq # <<>>
    /\ LET cmd == Head(proc[h].ipcq)
       IN  /\ proc' = [proc EXCEPT ![h].ipcq = Tail(@)]
           /\ bg' = [bg EXCEPT ![h].cmd = cmd,
                               ![h].pc = IF cmd[1] = "success_set" THEN "l106" ELSE "l110"]
           /\ calls' = [calls EXCEPT ![h].state =
                           IF cmd[1] = "success_set" THEN CALL_STATE_SUCCESS
                                                     ELSE CALL_STATE_ERROR]
    /\ UNCHANGED <<config, counters, caller, ret, events, obs, ncalls>>

\* Line 106: self.__fc_ret = cmd[1].
SyncSetRet(h) ==
    /\ h \in Handles
    /\ bg[h].pc = "l106"
    /\ calls' = [calls EXCEPT ![h].fc_ret = bg[h].cmd[2]]
    /\ bg' = [bg EXCEPT ![h].pc = "l115"]
    /\ UNCHANGED <<config, counters, proc, caller, ret, events, obs, ncalls>>

\* Line 110: self.__exception = cmd[1].
SyncSetException(h) ==
    /\ h \in Handles
    /\ bg[h].pc = "l110"
    /\ calls' = [calls EXCEPT ![h].exception = bg[h].cmd[2]]
    /\ bg' = [bg EXCEPT ![h].pc = "l115"]
    /\ UNCHANGED <<config, counters, proc, caller, ret, events, obs, ncalls>>

\* The test of line 115 without its first operand.
SyncIsAlive_ignores_tor(h) ==
    /\ h \in Handles
    /\ bg[h].pc = "l115"
    /\ bg' = [bg EXCEPT ![h].pc = IF proc[h].status # "exited" THEN "l116" ELSE "l127"]
    /\ UNCHANGED <<config, counters, calls, proc, caller, ret, events, obs, ncalls>>

\* Line 115: self.__tor and self.process.is_alive().
SyncIsAlive(h) ==
    /\ h \in Handles
    /\ bg[h].pc = "l115"
    /\ bg' = [bg EXCEPT ![h].pc = IF calls[h].tor /\ proc[h].status # "exited"
                                  THEN "l116" ELSE "l127"]
    /\ UNCHANGED <<config, counters, calls, proc, caller, ret, events, obs, ncalls>>

\* Line 116: self.process.terminate(). The worker may have ended since line 115;
\* terminate() on an ended process does nothing.
SyncTerminate(h) ==
    /\ h \in Handles
    /\ bg[h].pc = "l116"
    /\ proc' = [proc EXCEPT ![h].sigterm = TRUE]
    /\ bg' = [bg EXCEPT ![h].pc = "l117"]
    /\ UNCHANGED <<config, counters, calls, caller, ret, events, obs, ncalls>>

\* Lines 117-118: join(timeout=5) returns, and is_alive() decides on the kill.
SyncJoin(h) ==
    /\ h \in Handles
    /\ bg[h].pc = "l117"
    /\ bg' = [bg EXCEPT ![h].pc = IF proc[h].status # "exited" THEN "l125" ELSE "l127"]
    /\ UNCHANGED <<config, counters, calls, proc, caller, ret, events, obs, ncalls>>

\* The same lines with a failed kill that undoes the outcome the thread stored.
SyncKill_failure_resets(h) ==
    /\ h \in Handles
    /\ bg[h].pc = "l125"
    /\ \/ /\ proc' = [proc EXCEPT ![h].status = "exited", ![h].sigkill = TRUE]
          /\ bg' = [bg EXCEPT ![h].pc = "l127"]
          /\ UNCHANGED calls
       \/ /\ proc[h].status = "exited"
          /\ proc' = [proc EXCEPT ![h].sigkill = TRUE]
          /\ bg' = [bg EXCEPT ![h].pc = "dead", ![h].uncaught = KillError]
          /\ calls' = [calls EXCEPT ![h].state = CALL_STATE_INCOMPLETE,
                                    ![h].fc_ret = None]
    /\ UNCHANGED <<config, counters, caller, ret, events, obs, ncalls>>

\* Lines 122-125: taskkill / os.kill. A live worker is killed; for a worker that
\* ended since line 118 the kill does nothing (a zombie takes the signal) or
\* raises (taskkill with check=True), and the exception ends the sync thread.
SyncKill(h) ==
    /\ h \in Handles
    /\ bg[h].pc = "l125"
    /\ \/ /\ proc' = [proc EXCEPT ![h].status = "exited", ![h].sigkill = TRUE]
          /\ bg' = [bg EXCEPT ![h].pc = "l127"]
       \/ /\ proc[h].status = "exited"
          /\ proc' = [proc EXCEPT ![h].sigkill = TRUE]
          /\ bg' = [bg EXCEPT ![h].pc = "dead", ![h].uncaught = KillError]
    /\ UNCHANGED <<config, counters, calls, caller, ret, events, obs, ncalls>>

\* The same lines without the call of the callback.
SyncCallback_not_called(h) ==
    /\ h \in Handles
    /\ bg[h].pc = "l127"
    /\ bg' = [bg EXCEPT ![h].pc = "l132"]
    /\ UNCHANGED <<config, counters, calls, proc, caller, ret, events, obs, ncalls>>

\* Lines 127-130: the callback that matches the state is called with the stored
\* value. An exception of the callable is not caught at line 136: it ends the thread.
SyncCallback(h) ==
    /\ h \in Handles
    /\ bg[h].pc = "l127"
    /\ LET c == calls[h]
           cb == IF c.state = CALL_STATE_SUCCESS THEN c.onComplete ELSE c.onError
           ev == IF c.state = CALL_STATE_SUCCESS
                 THEN CallbackEvent("loop", "complete", cb, c.fc_ret, c.state)
                 ELSE CallbackEvent("loop", "error", cb, c.exception, c.state)
       IN  /\ events' = [events EXCEPT ![h] = Append(@, ev)]
           /\ bg' = [bg EXCEPT ![h].pc = IF cb.raises THEN "dead" ELSE "l132",
                               ![h].uncaught = IF cb.raises THEN CallbackError ELSE @]
    /\ UNCHANGED <<config, counters, calls, proc, caller, ret, obs, ncalls>>

\* Lines 132-135, then line 100 finds the state set and the thread ends.
SyncRelease(h) ==
    /\ h \in Handles
    /\ bg[h].pc = "l132"
    /\ PROCESS_CALL_COUNTER' = release_counter(PROCESS_CALL_COUNTER, calls[h].fid)
    /\ events' = [events EXCEPT ![h] = Append(@, ReleaseEvent(calls[h].state))]
    /\ bg' = [bg EXCEPT ![h].pc = "done"]
    /\ UNCHANGED <<config, FUN_CALL_COUNTER, calls, proc, caller, ret, obs, ncalls>>

\* -------------------------------------------- ThreadedCall.__exe (72-91)
\* Line 79: the function returns and its value is stored, or it raises.
ExeRun(h) ==
    /\ h \in Handles
    /\ bg[h].pc = "run"
    /\ \E out \in Outcomes(h) :
          /\ obs' = [obs EXCEPT ![h].produced = out]
          /\ IF out[1] = "success_set"
             THEN /\ calls' = [calls EXCEPT ![h].fc_ret = out[2]]
                  /\ bg' = [bg EXCEPT ![h].pc = "l81"]
             ELSE /\ bg' = [bg EXCEPT ![h].pc = "l85", ![h].e = out[2]]
                  /\ UNCHANGED calls
    /\ UNCHANGED <<config, counters, proc, caller, ret, events, ncalls>>

\* Line 81: self.__state = CALL_STATE_SUCCESS.
ExeSetSuccess(h) ==
    /\ h \in Handles
    /\ bg[h].pc = "l81"
    /\ calls' = [calls EXCEPT ![h].state = CALL_STATE_SUCCESS]
    /\ bg' = [bg EXCEPT ![h].pc = "l82"]
    /\ UNCHANGED <<config, counters, proc, caller, ret, events, obs, ncalls>>

\* Line 82: self.__onComplete(self.__fc_ret), inside the try: an exception of
\* the callable is caught at line 83 like one of the function.
ExeOnComplete(h) ==
    /\ h \in Handles
    /\ bg[h].pc = "l82"
    /\ LET c == calls[h]
       IN  /\ events' = [events EXCEPT ![h] =
                  Append(@, CallbackEvent("loop", "complete", c.onComplete, c.fc_ret, c.state))]
           /\ bg' = [bg EXCEPT ![h].pc = IF c.onComplete.raises THEN "l85" ELSE "l88",
                               ![h].e = IF c.onComplete.raises THEN CallbackError ELSE @]
    /\ UNCHANGED <<config, counters, calls, proc, caller, ret, obs, ncalls>>

\* Line 85: self.__exception = e.
ExeSetException(h) ==
    /\ h \in Handles
    /\ bg[h].pc = "l85"
    /\ calls' = [calls EXCEPT ![h].exception = bg[h].e]
    /\ bg' = [bg EXCEPT ![h].pc = "l86"]
    /\ UNCHANGED <<config, counters, proc, caller, ret, events, obs, ncalls>>

\* Line 86: self.__state = CALL_STATE_ERROR.
ExeSetError(h) ==
    /\ h \in Handles
    /\ bg[h].pc = "l86"
    /\ calls' = [calls EXCEPT ![h].state = CALL_STATE_ERROR]
    /\ bg' = [bg EXCEPT ![h].pc = "l87"]
    /\ UNCHANGED <<config, counters, proc, caller, ret, events, obs, ncalls>>

\* Line 87: self.__onError(self): the argument is the call object. An exception
\* of the callable ends the thread before the release.
ExeOnError(h) ==
    /\ h \in Handles
    /\ bg[h].pc = "l87"
    /\ LET c == calls[h]
       IN  /\ events' = [events EXCEPT ![h] =
                  Append(@, CallbackEvent("loop", "error", c.onError, Self, c.state))]
           /\ bg' = [bg EXCEPT ![h].pc = IF c.onError.raises THEN "dead" ELSE "l88",
                               ![h].uncaught = IF c.onError.raises THEN CallbackError ELSE @]
    /\ UNCHANGED <<config, counters, calls, proc, caller, ret, obs, ncalls>>

\* Lines 88-91: the release; the thread ends.
ExeRelease(h) ==
    /\ h \in Handles
    /\ bg[h].pc = "l88"
    /\ FUN_CALL_COUNTER' = release_counter(FUN_CALL_COUNTER, calls[h].fid)
    /\ events' = [events EXCEPT ![h] = Append(@, ReleaseEvent(calls[h].state))]
    /\ bg' = [bg EXCEPT ![h].pc = "done"]
    /\ UNCHANGED <<config, PROCESS_CALL_COUNTER, calls, proc, caller, ret, obs, ncalls>>

\* ------------------------------------ the caller's operations on a call
\* on_complete, line 63 (thread.py 40): the callable is stored. Every
\* registration passes a callable of its own, numbered per call object.
OnCompleteSet(h, raises, imm) ==
    /\ h \in Handles
    /\ caller.pc = "idle"
    /\ ncalls < MaxCalls
    /\ ncalls' = ncalls + 1
    /\ LET id == ncalls + 1   \* each registration passes a callable of its own
       IN  /\ calls' = [calls EXCEPT ![h].onComplete = [id |-> id, raises |-> raises]]
           /\ obs' = [obs EXCEPT ![h].late = IF calls[h].state = CALL_STATE_SUCCESS /\ imm
                                             THEN @ \cup {id} ELSE @]
    /\ caller' = [pc |-> "on_complete", h |-> h, imm |-> imm, timeout |-> 0,
                  entry |-> calls[h].state]
    /\ ret' = NoRet
    /\ UNCHANGED <<config, counters, bg, proc, events>>

\* on_complete, lines 64-66 (thread.py 41-43): with the state Success the
\* callable is called at once with the stored result; its exception reaches the
\* caller.
OnCompleteCall(h) ==
    /\ h \in Handles
    /\ caller.pc = "on_complete"
    /\ caller.h = h
    /\ LET c == calls[h]
           cb == c.onComplete
       IN  IF c.state = CALL_STATE_SUCCESS /\ caller.imm
           THEN /\ events' = [events EXCEPT ![h] =
                       Append(@, CallbackEvent("caller", "complete", cb, c.fc_ret, c.state))]
                /\ ret' = IF cb.raises
                          THEN Returned("on_complete", h, None, CallbackError, c.state)
                          ELSE Returned("on_complete", h, Self, None, c.state)
           ELSE /\ ret' = Returned("on_complete", h, Self, None, c.state)
                /\ UNCHANGED events
    /\ caller' = Idle
    /\ UNCHANGED <<config, counters, calls, bg, proc, obs, ncalls>>

\* on_error, line 72 (thread.py 49).
OnErrorSet(h, raises, imm) ==
    /\ h \in Handles
    /\ caller.pc = "idle"
    /\ ncalls < MaxCalls
    /\ ncalls' = ncalls + 1
    /\ LET id == ncalls + 1   \* each registration passes a callable of its own
       IN  /\ calls' = [calls EXCEPT ![h].onError = [id |-> id, raises |-> raises]]
           /\ obs' = [obs EXCEPT ![h].late = IF calls[h].state = CALL_STATE_ERROR /\ imm
                                             THEN @ \cup {id} ELSE @]
    /\ caller' = [pc |-> "on_error", h |-> h, imm |-> imm, timeout |-> 0,
                  entry |-> calls[h].state]
    /\ ret' = NoRet
    /\ UNCHANGED <<config, counters, bg, proc, events>>

\* on_error, lines 73-75 (thread.py 50-52): the argument is the stored exception.
OnErrorCall(h) ==
    /\ h \in Handles
    /\ caller.pc = "on_error"
    /\ caller.h = h
    /\ LET c == calls[h]
           cb == c.onError
       IN  IF c.state = CALL_STATE_ERROR /\ caller.imm
           THEN /\ events' = [events EXCEPT ![h] =
                       Append(@, CallbackEvent("caller", "error", cb, c.exception, c.state))]
                /\ ret' = IF cb.raises
                          THEN Returned("on_error", h, None, CallbackError, c.state)
                          ELSE Returned("on_error", h, Self, None, c.state)
           ELSE /\ ret' = Returned("on_error", h, Self, None, c.state)
                /\ UNCHANGED events
    /\ caller' = Idle
    /\ UNCHANGED <<config, counters, calls, bg, proc, obs, ncalls>>

\* burst, line 81 (thread.py 58): raise self.__exception, whatever the state.
burst(h) ==
    /\ h \in Handles
    /\ caller.pc = "idle"
    /\ ncalls < MaxCalls
    /\ ncalls' = ncalls + 1
    /\ ret' = Returned("burst", h, None, calls[h].exception, calls[h].state)
    /\ UNCHANGED <<config, counters, calls, bg, proc, caller, events, obs>>

\* wait, line 87 (thread.py 64): the state is read; Incomplete leads to the join.
WaitEnter(h, timeout) ==
    /\ h \in Handles
    /\ caller.pc = "idle"
    /\ caller' = [pc |-> IF calls[h].state = CALL_STATE_INCOMPLETE
                         THEN "wait_join" ELSE "wait_return",
                  h |-> h, imm |-> FALSE, timeout |-> timeout, entry |-> calls[h].state]
    /\ ret' = NoRet
    /\ ncalls < MaxCalls
    /\ ncalls' = ncalls + 1
    /\ UNCHANGED <<config, counters, calls, bg, proc, events, obs>>

\* The same lines with a join that returns at once, whatever the timeout.
WaitJoin_returns_at_once(h) ==
    /\ h \in Handles
    /\ caller.pc = "wait_join"
    /\ caller.h = h
    /\ caller' = [caller EXCEPT !.pc = "wait_return"]
    /\ UNCHANGED <<config, counters, calls, bg, proc, ret, events, obs, ncalls>>

\* wait, lines 89-92 (thread.py 66-69): join returns when the background thread
\* has ended, or, with a positive timeout, when the timeout has passed.
WaitJoin(h) ==
    /\ h \in Handles
    /\ caller.pc = "wait_join"
    /\ caller.h = h
    /\ bg[h].pc \in {"done", "dead"} \/ caller.timeout > 0
    /\ caller' = [caller EXCEPT !.pc = "wait_return"]
    /\ UNCHANGED <<config, counters, calls, bg, proc, ret, events, obs, ncalls>>

\* The same line in a wait that stops the worker before it returns.
WaitReturn_stops_worker(h) ==
    /\ h \in Handles
    /\ caller.pc = "wait_return"
    /\ caller.h = h
    /\ ret' = Returned("wait", h, calls[h].fc_ret, None, calls[h].state)
    /\ obs' = [obs EXCEPT ![h].termWaits =
                  IF caller.entry # CALL_STATE_INCOMPLETE
                  THEN @ \cup {calls[h].fc_ret} ELSE @]
    /\ proc' = [proc EXCEPT ![h].sigterm = TRUE]
    /\ caller' = Idle
    /\ UNCHANGED <<config, counters, calls, bg, events, ncalls>>

\* wait, line 93 (thread.py 70): return self.__fc_ret.
WaitReturn(h) ==
    /\ h \in Handles
    /\ caller.pc = "wait_return"
    /\ caller.h = h
    /\ ret' = Returned("wait", h, calls[h].fc_ret, None, calls[h].state)
    /\ obs' = [obs EXCEPT ![h].termWaits =
                  IF caller.entry # CALL_STATE_INCOMPLETE
                  THEN @ \cup {calls[h].fc_ret} ELSE @]
    /\ caller' = Idle
    /\ UNCHANGED <<config, counters, calls, bg, proc, events, ncalls>>

\* A program with two functions under the same decorator, both without a limit
\* (the default), so that calls of one function run side by side and next to
\* calls of the other, all counted in one table.
TwoFids == {1, 2}

InitTwo ==
    /\ decorator \in [TwoFids -> Paths]
    /\ decorator[1] = decorator[2]
    /\ max_concurrent_execs = [f \in TwoFids |-> UNBOUNDED]
    /\ terminate_on_return \in [TwoFids -> BOOLEAN]
    /\ ~terminate_on_return[2]
    /\ \A f \in TwoFids : decorator[f] = "thread" => ~terminate_on_return[f]
    /\ PROCESS_CALL_COUNTER = <<>>
    /\ FUN_CALL_COUNTER = <<>>
    /\ calls = <<>>
    /\ bg = <<>>
    /\ proc = <<>>
    /\ caller = Idle
    /\ ret = NoRet
    /\ events = <<>>
    /\ obs = <<>>
    /\ ncalls = 0

Caller(h) ==
    \/ \E raises \in BOOLEAN, imm \in BOOLEAN :
          OnCompleteSet(h, raises, imm) \/ OnErrorSet(h, raises, imm)
    \/ OnCompleteCall(h) \/ OnErrorCall(h)
    \/ burst(h)
    \/ \E timeout \in Timeouts : WaitEnter(h, timeout)
    \/ WaitJoin(h) \/ WaitReturn(h)

HandleIds == 1 .. MaxCalls

Worker(h) == WorkerPut(h) \/ WorkerExit(h) \/ WorkerCrash(h)

SyncState(h) ==
    \/ SyncPollEmpty(h) \/ SyncGet(h) \/ SyncSetRet(h) \/ SyncSetException(h)
    \/ SyncIsAlive(h) \/ SyncTerminate(h) \/ SyncJoin(h) \/ SyncKill(h)
    \/ SyncCallback(h) \/ SyncRelease(h)

Exe(h) ==
    \/ ExeRun(h) \/ ExeSetSuccess(h) \/ ExeOnComplete(h)
    \/ ExeSetException(h) \/ ExeSetError(h) \/ ExeOnError(h) \/ ExeRelease(h)

Next ==
    \/ \E fid \in DOMAIN decorator : Invoke(fid)
    \/ \E h \in HandleIds : Worker(h) \/ SyncState(h) \/ Exe(h) \/ Caller(h)

\* ================================================================ claims
CountOf(counter, fid) == IF fid \in DOMAIN counter THEN counter[fid] ELSE 0

\* The limiter's rule as the specification states it: no limit, or count < max.
ReferenceAdmits(counter, fid, max) == max = UNBOUNDED \/ CountOf(counter, fid) < max

\* The value the function of call h returned, if it returned.
Succeeded(h) == obs[h].produced # <<>> /\ obs[h].produced[1] = "success_set"
Raised(h) == obs[h].produced # <<>> /\ obs[h].produced[1] = "exception_set"

\* The exception the background thread of call h caught or received.
CapturedException(h) == IF calls[h].path = "sp" THEN bg[h].cmd[2] ELSE bg[h].e

\* The places in the history of call h where the callable numbered id was called.
Invocations(h, id) ==
    {i \in DOMAIN events[h] : events[h][i].ev = "callback" /\ events[h][i].cb = id}

LoopCallbacks(h) ==
    {i \in DOMAIN events[h] : events[h][i].ev = "callback" /\ events[h][i].by = "loop"}

Releases(h) == {i \in DOMAIN events[h] : events[h][i].ev = "release"}

\* C1: for a bounded max_concurrent_execs >= 0 the count stored for a function
\* is never negative and never above max_concurrent_execs.
C1_CountWithinMax ==
    \A f \in Fids :
        max_concurrent_execs[f] >= 0 =>
            /\ CountOf(PROCESS_CALL_COUNTER, f) >= 0
            /\ CountOf(PROCESS_CALL_COUNTER, f) <= max_concurrent_execs[f]
            /\ CountOf(FUN_CALL_COUNTER, f) >= 0
            /\ CountOf(FUN_CALL_COUNTER, f) <= max_concurrent_execs[f]

\* C2: the wrapper admits a call exactly when the reference rule does (a function
\* without an entry counts as 0), and every admission raises the count by one.
C2_AdmissionMatchesRule ==
    [][\A f \in Fids :
          Invoke(f) =>
              LET counter == Counter(decorator[f])
                  counter2 == IF decorator[f] = "sp" THEN PROCESS_CALL_COUNTER'
                                                     ELSE FUN_CALL_COUNTER'
                  admitted == Len(calls') = Len(calls) + 1
              IN  /\ admitted <=> ReferenceAdmits(counter, f, max_concurrent_execs[f])
                  /\ admitted => CountOf(counter2, f) = CountOf(counter, f) + 1
      ]_vars

\* C3: a rejected invocation raises MaxConcurrentCallsLimitExceedException to the
\* caller in the call itself, leaves both counter tables as they were and creates
\* no call object, worker, queue or background thread; and an invocation that
\* creates no call object is one that raised it.
C3_RejectionLeavesNothing ==
    [][/\ (/\ ncalls' = ncalls + 1
           /\ ret'.op = "invoke"
           /\ ret'.raised = MaxConcurrentCallsLimitExceedException)
          => UNCHANGED <<PROCESS_CALL_COUNTER, FUN_CALL_COUNTER, calls, bg, proc,
                         events, obs>>
       /\ (/\ ncalls' = ncalls + 1
           /\ ret'.op = "invoke"
           /\ Len(calls') = Len(calls))
          => /\ ret'.raised = MaxConcurrentCallsLimitExceedException
             /\ caller' = Idle
      ]_vars

\* The second call with max_concurrent_execs = 1 was rejected while the first is
\* still in flight.
C3_Witness ==
    /\ ret.op = "invoke"
    /\ ret.raised = MaxConcurrentCallsLimitExceedException
    /\ max_concurrent_execs[1] = 1
    /\ Len(calls) = 1
    /\ calls[1].state = CALL_STATE_INCOMPLETE
    /\ CountOf(Counter(decorator[1]), 1) = 1

\* C4: a callable registered (with the default immediate_callback_if_done) when
\* the state was already Success, or Error for on_error, is called exactly once:
\* by the registration and not by the background thread, and with the value the
\* function returned, or the exception the background thread captured.
C4_LateCallbackOnce ==
    \A h \in Handles :
        \A id \in obs[h].late :
            /\ Cardinality(Invocations(h, id)) <= 1
            /\ (caller.h # h \/ caller.pc \notin {"on_complete", "on_error"})
                   => Cardinality(Invocations(h, id)) = 1
            /\ \A i \in Invocations(h, id) :
                   /\ events[h][i].by = "caller"
                   /\ events[h][i].kind = "complete" => events[h][i].arg = obs[h].produced[2]
                   /\ events[h][i].kind = "error" => events[h][i].arg = CapturedException(h)

\* C5: a wait entered with the state Success or Error does not block, and all
\* such waits on one call object return the same value.
C5_TerminalWaitStable ==
    /\ caller.pc = "wait_join" => caller.entry = CALL_STATE_INCOMPLETE
    /\ \A h \in Handles : Cardinality(obs[h].termWaits) <= 1

\* C6: wait returns the function's value when the function returned and the state
\* is Success, None when the function raised, None when it returns with the state
\* still Incomplete (a timeout), and never anything but None or that value.
C6_WaitReturnsWorkerValue ==
    ret.op = "wait" =>
        /\ (Succeeded(ret.h) /\ ret.state = CALL_STATE_SUCCESS)
               => ret.value = obs[ret.h].produced[2]
        /\ Raised(ret.h) => ret.value = None
        /\ ret.state = CALL_STATE_INCOMPLETE => ret.value = None
        /\ ret.value # None => Succeeded(ret.h) /\ ret.value = obs[ret.h].produced[2]

\* C7: burst on a call in Error state raises the captured exception; in any
\* other state it raises BurstWhileNoTaskErrorsException.
C7_BurstRaises ==
    ret.op = "burst" =>
        /\ ret.state = CALL_STATE_ERROR => ret.raised = CapturedException(ret.h)
        /\ ret.state # CALL_STATE_ERROR => ret.raised = BurstWhileNoTaskErrorsException

\* C8: whoever calls a registered error callback, the background thread or a
\* late on_error, passes the stored exception, with the state Error; and the
\* function's exception reaches the calling thread through burst alone.
C8_ErrorCallbackGetsException ==
    /\ \A h \in Handles :
           \A i \in DOMAIN events[h] :
               (/\ events[h][i].ev = "callback"
                /\ events[h][i].kind = "error"
                /\ events[h][i].cb # pass_.id)
                   => /\ events[h][i].state = CALL_STATE_ERROR
                      /\ events[h][i].arg = calls[h].exception
    /\ ret.raised = ValueError => ret.op = "burst"

\* C9: once the state of a call object is Success or Error, its state, its
\* stored result and its stored exception never change again.
C9_TerminalAbsorbing ==
    [][\A h \in Handles :
          calls[h].state # CALL_STATE_INCOMPLETE =>
              /\ calls'[h].state = calls[h].state
              /\ calls'[h].fc_ret = calls[h].fc_ret
              /\ calls'[h].exception = calls[h].exception
      ]_vars

\* C10: for every call object the state is set before the background thread
\* calls a callback, and the callback is called before the count is released:
\* both happen with the state Success or Error, a release follows a callback of
\* the background thread, and a count only goes down in a release step.
C10_StateThenCallbackThenRelease ==
    /\ [](\A h \in Handles :
             /\ \A i \in LoopCallbacks(h) \cup Releases(h) :
                    events[h][i].state # CALL_STATE_INCOMPLETE
             /\ \A i \in Releases(h) : \E j \in LoopCallbacks(h) : j < i)
    /\ [][\A f \in Fids :
             (\/ CountOf(PROCESS_CALL_COUNTER', f) < CountOf(PROCESS_CALL_COUNTER, f)
              \/ CountOf(FUN_CALL_COUNTER', f) < CountOf(FUN_CALL_COUNTER, f))
                 => \E h \in Handles :
                        /\ calls[h].fid = f
                        /\ calls[h].state # CALL_STATE_INCOMPLETE
                        /\ LoopCallbacks(h) # {}
                        /\ Len(events'[h]) = Len(events[h]) + 1
                        /\ events'[h][Len(events'[h])].ev = "release"
         ]_vars

\* A registered callable was called by the background thread of a call object
\* and the count was released after it, back to 0.
C10_Witness ==
    \E h \in Handles :
        /\ Releases(h) # {}
        /\ \E j \in LoopCallbacks(h) : events[h][j].cb # pass_.id
        /\ CountOf(Counter(calls[h].path), calls[h].fid) = 0

\* The calls of function f that were admitted, and those whose background thread
\* has released the count.
Admitted(f) == {h \in Handles : calls[h].fid = f}
Released(f) == {h \in Admitted(f) : Releases(h) # {}}

\* The background thread of call h has ended, by returning or by an exception.
Ended(h) == bg[h].pc \in {"done", "dead"}

\* C11: the count of a function is raised once per admitted call and lowered once
\* per call whose worker reported an outcome, by that call's background thread:
\* the count is the number of admitted calls less the released ones, no call
\* releases twice, and a call whose outcome was reported and whose background
\* thread has ended has released, whatever its callback did.
C11_CountedOncePerCall ==
    /\ \A f \in Fids :
           CountOf(Counter(decorator[f]), f)
               = Cardinality(Admitted(f)) - Cardinality(Released(f))
    /\ \A h \in Handles :
           /\ Cardinality(Releases(h)) <= 1
           /\ (Ended(h) /\ obs[h].produced # <<>>) => Cardinality(Releases(h)) = 1

\* The worker process of call h has ended without putting a message on the queue.
Crashed(h) == proc[h].status = "exited" /\ obs[h].produced = <<>>

\* C12: once the worker of a call has ended without a message, the call stays
\* Incomplete and its sync thread stays in the polling loop in every later state,
\* a wait without timeout on it does not get past the join, and a wait with a
\* positive timeout returns, with None and with the state still Incomplete.
C12_CrashedWorkerNeverCompletes ==
    /\ [](\A h \in Handles :
             Crashed(h) =>
                 /\ calls[h].state = CALL_STATE_INCOMPLETE
                 /\ bg[h].pc = "poll"
                 /\ proc[h].ipcq = <<>>
                 /\ ~(caller.h = h /\ caller.pc = "wait_return" /\ caller.timeout = 0)
                 /\ (ret.op = "wait" /\ ret.h = h)
                        => ret.value = None /\ ret.state = CALL_STATE_INCOMPLETE)
    /\ [][\A h \in Handles : Crashed(h) => Crashed(h)']_vars
    /\ (caller.pc = "wait_join" /\ caller.timeout > 0 /\ Crashed(caller.h))
           ~> (/\ caller.pc = "idle"
               /\ ret.op = "wait"
               /\ ret.value = None
               /\ ret.state = CALL_STATE_INCOMPLETE)

\* A wait without timeout is in the join on a call whose worker has crashed.
C12_Witness ==
    /\ caller.pc = "wait_join"
    /\ caller.timeout = 0
    /\ Crashed(caller.h)

\* The steps of the calling thread inside wait: entering it, the join, the return.
WaitStep ==
    /\ caller' # caller
    /\ caller.pc \in {"wait_join", "wait_return"} \/ caller'.pc \in {"wait_join", "wait_return"}

\* The outcome of call h has reached the call object, a callback and the count.
Delivered(h) ==
    /\ calls[h].state # CALL_STATE_INCOMPLETE
    /\ calls[h].state = CALL_STATE_SUCCESS => calls[h].fc_ret = obs[h].produced[2]
    /\ Raised(h) => calls[h].state = CALL_STATE_ERROR /\ calls[h].exception = ValueError
    /\ LoopCallbacks(h) # {}
    /\ Cardinality(Releases(h)) = 1

\* C13: no step of wait changes a call object's state, result, exception or
\* callbacks, a counter table, a worker or its queue, or a background thread; and
\* when a wait has returned on its timeout with the state Incomplete, the
\* background thread that later runs to its end has delivered the outcome.
C13_WaitChangesNothing ==
    /\ [][WaitStep => UNCHANGED <<calls, PROCESS_CALL_COUNTER, FUN_CALL_COUNTER,
                                  proc, bg, events>>]_vars
    /\ [](ret.op = "wait" /\ ret.state = CALL_STATE_INCOMPLETE /\ bg[ret.h].pc = "done"
             => Delivered(ret.h))

\* A wait with a timeout returned None with the state Incomplete; afterwards the
\* function returned, its value was stored, the registered callable was called
\* with it and the count was released.
C13_Witness ==
    /\ ret.op = "wait"
    /\ ret.state = CALL_STATE_INCOMPLETE
    /\ ret.value = None
    /\ bg[ret.h].pc = "done"
    /\ calls[ret.h].state = CALL_STATE_SUCCESS
    /\ calls[ret.h].fc_ret = CallResult(ret.h)
    /\ \E j \in LoopCallbacks(ret.h) :
           events[ret.h][j].cb # pass_.id /\ events[ret.h][j].arg = CallResult(ret.h)
    /\ CountOf(Counter(calls[ret.h].path), calls[ret.h].fid) = 0

\* The fields of call object h.
Fields(h) == <<calls[h].state, calls[h].fc_ret, calls[h].exception,
               calls[h].onComplete, calls[h].onError>>

\* C14: call objects are independent but for the count of their function. A step
\* changes the fields of a call object only if it is a step of that object's own
\* background thread or the caller's registration on that object, and it changes
\* the fields, background thread, worker and history of no second call object;
\* wait on a call object returns None or the value of its own call (x -> 3,
\* y -> 4); and the count of a function changes only when a call of that function
\* is admitted or released, and only in the table of its decorator.
C14_HandlesIndependent ==
    /\ [][\A h \in Handles :
             /\ Fields(h)' # Fields(h)
                    => \/ bg'[h] # bg[h]
                       \/ caller'.h = h /\ caller'.pc \in {"on_complete", "on_error"}
             /\ <<calls[h], bg[h], proc[h], events[h], obs[h]>>'
                    # <<calls[h], bg[h], proc[h], events[h], obs[h]>>
                    => \A g \in Handles \ {h} :
                           UNCHANGED <<calls[g], bg[g], proc[g], events[g], obs[g]>>
         ]_vars
    /\ [](ret.op = "wait" => ret.value \in {None, CallResult(ret.h)})
    /\ [][\A f \in DOMAIN decorator :
             /\ CountOf(PROCESS_CALL_COUNTER', f) # CountOf(PROCESS_CALL_COUNTER, f)
                    \/ CountOf(FUN_CALL_COUNTER', f) # CountOf(FUN_CALL_COUNTER, f)
                    => \/ /\ Len(calls') = Len(calls) + 1
                          /\ calls'[Len(calls')].fid = f
                       \/ \E h \in Handles :
                              /\ calls[h].fid = f
                              /\ Len(events'[h]) = Len(events[h]) + 1
                              /\ events'[h][Len(events'[h])].ev = "release"
             /\ decorator[f] = "sp"
                    => CountOf(FUN_CALL_COUNTER', f) = CountOf(FUN_CALL_COUNTER, f)
             /\ decorator[f] = "thread"
                    => CountOf(PROCESS_CALL_COUNTER', f) = CountOf(PROCESS_CALL_COUNTER, f)
         ]_vars

\* x and y are calls of function 1 in flight together; y completed first and
\* released its count, and wait on y returned 4 while x is still Incomplete with
\* its fields as they were created.
C14_Witness ==
    /\ Len(calls) = 2
    /\ calls[1].fid = 1 /\ calls[2].fid = 1
    /\ calls[1] = NewCall(decorator[1], 1, terminate_on_return[1])
    /\ calls[2].state = CALL_STATE_SUCCESS
    /\ ret.op = "wait" /\ ret.h = 2 /\ ret.value = int(4)
    /\ Releases(2) # {}
    /\ CountOf(Counter(decorator[1]), 1) = 1

\* C15: on the process path, in every state where the state field reads Success
\* the stored result is the value the worker sent, and where it reads Error the
\* stored exception is the exception the worker sent: no state shows Success
\* with the initial None or Error with the initial placeholder.
C15_SynchronizedPublish ==
    \A h \in Handles :
        calls[h].path = "sp" =>
            /\ calls[h].state = CALL_STATE_SUCCESS
                   => calls[h].fc_ret = obs[h].produced[2] /\ calls[h].fc_ret # None
            /\ calls[h].state = CALL_STATE_ERROR
                   => /\ calls[h].exception = obs[h].produced[2]
                      /\ calls[h].exception # BurstWhileNoTaskErrorsException

\* C16: on the process path, under fair scheduling, once the worker has put its
\* outcome on the queue the state becomes Success or Error, the sync thread
\* calls the matching callback, releases the count and returns; and a wait
\* without timeout on such a call returns.
C16_SyncLoopCompletes ==
    /\ \A h \in HandleIds :
           (h \in Handles /\ proc[h].ipcq # <<>>)
               ~> (/\ h \in Handles
                   /\ calls[h].state # CALL_STATE_INCOMPLETE
                   /\ LoopCallbacks(h) # {}
                   /\ Releases(h) # {}
                   /\ bg[h].pc = "done")
    /\ (/\ caller.pc = "wait_join"
        /\ caller.timeout = 0
        /\ obs[caller.h].produced # <<>>)
           ~> caller.pc = "idle"

\* The sync thread of call h is inside the termination protocol (lines 116-125).
InProtocol(h) == bg[h].pc \in {"l116", "l117", "l125"}

\* C17: terminate() is sent only with terminate_on_return set, after the sync
\* thread has taken the outcome from the queue and found the worker alive at
\* line 115; the kill only after terminate() and the join, and after line 118
\* found the worker still alive; the protocol is over before the sync thread
\* calls a callback; and without terminate_on_return the call object sends the
\* worker neither.
C17_TerminationOrder ==
    /\ [](\A h \in Handles :
             /\ proc[h].sigterm
                    => /\ calls[h].tor
                       /\ calls[h].state # CALL_STATE_INCOMPLETE
                       /\ bg[h].cmd # <<>>
             /\ proc[h].sigkill => proc[h].sigterm
             /\ InProtocol(h) => calls[h].tor /\ LoopCallbacks(h) = {}
             /\ ~calls[h].tor => ~proc[h].sigterm /\ ~proc[h].sigkill)
    /\ [][\A h \in Handles :
             /\ (bg'[h].pc = "l116" /\ bg[h].pc # "l116")
                    => bg[h].pc = "l115" /\ proc[h].status # "exited"
             /\ (proc'[h].sigterm /\ ~proc[h].sigterm) => bg[h].pc = "l116"
             /\ (bg'[h].pc = "l125" /\ bg[h].pc # "l125")
                    => bg[h].pc = "l117" /\ proc[h].sigterm /\ proc[h].status # "exited"
             /\ (proc'[h].sigkill /\ ~proc[h].sigkill) => bg[h].pc = "l125"
             /\ Len(events'[h]) > Len(events[h]) /\ events'[h][Len(events'[h])].by = "loop"
                    => ~InProtocol(h)
         ]_vars

\* The worker was sent terminate(), outlived the join and was killed; after that
\* the sync thread called the callback.
C17_Witness ==
    \E h \in Handles :
        /\ proc[h].sigterm
        /\ proc[h].sigkill
        /\ proc[h].status = "exited"
        /\ LoopCallbacks(h) # {}
        /\ bg[h].uncaught = None

\* The state, result and exception a call object holds.
Stored(h) == <<calls[h].state, calls[h].fc_ret, calls[h].exception>>

\* What the sync thread stores for the outcome the worker of call h produced.
StoredFor(h) ==
    IF Succeeded(h)
    THEN <<CALL_STATE_SUCCESS, obs[h].produced[2], BurstWhileNoTaskErrorsException>>
    ELSE <<CALL_STATE_ERROR, None, obs[h].produced[2]>>

\* C18: a kill that fails, or that finds the worker already ended, raises nothing
\* in the calling thread and leaves the state, result and exception of the call
\* object as they were before the termination protocol began: they do not change
\* during the protocol nor after the failure, and are those of the worker's
\* outcome.
C18_KillFailureContained ==
    /\ [](/\ ret.raised # KillError
          /\ \A h \in Handles : bg[h].uncaught = KillError => Stored(h) = StoredFor(h))
    /\ [][\A h \in Handles :
             (InProtocol(h) \/ bg[h].uncaught = KillError) => Stored(h)' = Stored(h)
         ]_vars

\* The kill failed and ended the sync thread; the wait of the caller that was
\* joining it then returned the function's value, without an exception.
C18_Witness ==
    /\ ret.op = "wait"
    /\ bg[ret.h].uncaught = KillError
    /\ ret.value = CallResult(ret.h)
    /\ ret.raised = None
    /\ ret.state = CALL_STATE_SUCCESS

\* The messages of call h: those on its queue and the one its sync thread took.
Messages(h) == proc[h].ipcq \o (IF bg[h].cmd = <<>> THEN <<>> ELSE <<bg[h].cmd>>)

\* C19: on the process path a worker sends one message at most, and it is the
\* outcome of its function: ("success_set", value) if it returned,
\* ("exception_set", exception) if it raised, nothing if it did neither; the
\* sync thread takes a message only while the state is Incomplete, takes one
\* message at most, and nothing is put on a queue a message was taken from.
C19_OneOutcomeMessage ==
    /\ [](\A h \in Handles :
             /\ Len(Messages(h)) <= 1
             /\ obs[h].produced = <<>> => Messages(h) = <<>>
             /\ (calls[h].path = "sp" /\ obs[h].produced # <<>>)
                    => Messages(h) = <<obs[h].produced>>
             /\ Succeeded(h) => obs[h].produced = <<"success_set", CallResult(h)>>
             /\ Raised(h) => obs[h].produced = <<"exception_set", ValueError>>
             /\ calls[h].state # CALL_STATE_INCOMPLETE /\ calls[h].path = "sp"
                    => proc[h].ipcq = <<>> /\ bg[h].cmd # <<>>)
    /\ [][\A h \in Handles :
             /\ Len(proc'[h].ipcq) < Len(proc[h].ipcq)
                    => /\ calls[h].state = CALL_STATE_INCOMPLETE
                       /\ bg[h].cmd = <<>>
                       /\ bg'[h].cmd = Head(proc[h].ipcq)
             /\ Len(proc'[h].ipcq) > Len(proc[h].ipcq)
                    => proc[h].ipcq = <<>> /\ bg[h].cmd = <<>> /\ obs[h].produced = <<>>
         ]_vars

\* The function raised, the worker put ("exception_set", ValueError), the sync
\* thread took it and has ended; the queue is empty.
C19_Witness ==
    \E h \in Handles :
        /\ Raised(h)
        /\ bg[h].cmd = <<"exception_set", ValueError>>
        /\ proc[h].ipcq = <<>>
        /\ calls[h].state = CALL_STATE_ERROR
        /\ bg[h].pc = "done"

\* C20: when a wait without timeout is at its return, the background thread of
\* the call has called the matching callback and released the count, so that
\* with max_concurrent_execs = 1 the wrapper admits the next call of the
\* function: whether the wait found the state Incomplete and joined the thread,
\* or found it already Success or Error.
C20_WaitReturnsAfterRelease ==
    (caller.pc = "wait_return" /\ caller.timeout = 0) =>
        LET h == caller.h
            f == calls[h].fid
        IN  /\ LoopCallbacks(h) # {}
            /\ Releases(h) # {}
            /\ max_concurrent_execs[f] = 1
                   => ~wrapper_raises(Counter(decorator[f]), f, max_concurrent_execs[f])

\* The kinds of callback the background thread of call h has called.
LoopKinds(h) == {events[h][i].kind : i \in LoopCallbacks(h)}

\* C21: for every call object a completion callback is called only with the
\* state Success and with the stored result, an error callback only with the
\* state Error, and the background thread never calls both kinds for one call,
\* on either path, also when the completion callback raises.
C21_CallbacksExclusive ==
    /\ [](\A h \in Handles :
             /\ \A i \in DOMAIN events[h] :
                    /\ (events[h][i].ev = "callback" /\ events[h][i].kind = "complete")
                           => events[h][i].state = CALL_STATE_SUCCESS
                    /\ (events[h][i].ev = "callback" /\ events[h][i].kind = "error")
                           => events[h][i].state = CALL_STATE_ERROR
             /\ Cardinality(LoopKinds(h)) <= 1)
    /\ [][\A h \in Handles :
             (/\ Len(events'[h]) = Len(events[h]) + 1
              /\ events'[h][Len(events'[h])].kind = "complete")
                 => /\ calls[h].state = CALL_STATE_SUCCESS
                    /\ events'[h][Len(events'[h])].arg = calls[h].fc_ret
         ]_vars

\* The calls of function f whose worker ended without a message.
CrashedCalls(f) == {h \in Admitted(f) : Crashed(h)}

\* C22: the count of a function is lowered only by the release of the background
\* thread of one of its calls, on the process path after that thread has taken
\* the outcome message; a call that is Incomplete has not released, so the count
\* covers it; a call whose worker ended without a message never releases, the
\* count of its function stays at or above the number of such calls, and with
\* max_concurrent_execs = 1 the count does not go down again and every later
\* call of the function is rejected.
C22_SlotHeldUntilOutcome ==
    /\ [](\A h \in Handles :
             /\ calls[h].state = CALL_STATE_INCOMPLETE => Releases(h) = {}
             /\ Crashed(h) => Releases(h) = {})
    /\ [](\A f \in DOMAIN decorator :
             /\ CountOf(Counter(decorator[f]), f)
                    >= Cardinality({h \in Admitted(f) :
                                       calls[h].state = CALL_STATE_INCOMPLETE})
             /\ CountOf(Counter(decorator[f]), f) >= Cardinality(CrashedCalls(f)))
    /\ [][\A f \in DOMAIN decorator :
             /\ CountOf(Counter(decorator[f]), f)' < CountOf(Counter(decorator[f]), f)
                    => \E h \in Admitted(f) :
                           /\ calls[h].state # CALL_STATE_INCOMPLETE
                           /\ calls[h].path = "sp" => bg[h].cmd # <<>>
                           /\ Releases(h) = {}
                           /\ Len(events'[h]) = Len(events[h]) + 1
                           /\ events'[h][Len(events'[h])].ev = "release"
             /\ (max_concurrent_execs[f] = 1 /\ CrashedCalls(f) # {})
                    => /\ CountOf(Counter(decorator[f]), f)'
                              = CountOf(Counter(decorator[f]), f)
                       /\ Invoke(f) => /\ ret'.raised = MaxConcurrentCallsLimitExceedException
                                       /\ Len(calls') = Len(calls)
         ]_vars

\* C22 as stated: a call that is Incomplete has not released; once the worker of
\* a call has ended without a message the count of its function never goes down
\* again, whatever max_concurrent_execs is; and with max_concurrent_execs = 1
\* every later call of the function is rejected.
C22_CountNeverDecreasesAfterCrash ==
    /\ [](\A h \in Handles :
             calls[h].state = CALL_STATE_INCOMPLETE => Releases(h) = {})
    /\ [][\A f \in DOMAIN decorator :
             CrashedCalls(f) # {}
                 => /\ CountOf(Counter(decorator[f]), f)'
                           >= CountOf(Counter(decorator[f]), f)
                    /\ (max_concurrent_execs[f] = 1 /\ Invoke(f))
                           => ret'.raised = MaxConcurrentCallsLimitExceedException
         ]_vars

\* The worker of the one call of a function with max_concurrent_execs = 1 has
\* ended without a message: the count is still 1, and the calls of the function
\* made since were rejected.
C22_Witness ==
    /\ max_concurrent_execs[1] = 1
    /\ Len(calls) = 1
    /\ Crashed(1)
    /\ CountOf(Counter(decorator[1]), 1) = 1
    /\ ncalls = 3
    /\ ret.op = "invoke"
    /\ ret.raised = MaxConcurrentCallsLimitExceedException

Spec == Init /\ [][Next]_vars

\* Scheduling: a background thread that can take a step takes it, and the calling
\* thread finishes the operation it is inside. Nothing makes the calling thread
\* start an operation, or the wrapped function end.
FairSpec ==
    /\ Spec
    /\ \A h \in HandleIds :
           /\ WF_vars(SyncState(h))
           /\ WF_vars(Exe(h))
           /\ WF_vars(OnCompleteCall(h) \/ OnErrorCall(h) \/ WaitJoin(h) \/ WaitReturn(h))
SpecTwo == InitTwo /\ [][Next]_vars
====
